---- MODULE Spec2Model ----
(***************************************************************************)
(* A model of PyTrk234: the TRK 2-34 reader (Reader.py), the record facade *)
(* (SFDU.py), the two stream aggregators (Info.py, util.py) and the two    *)
(* verbatim stream transforms (trk234_purify.py, trk234_regroup.py).       *)
(*                                                                         *)
(* The input file is a sequence of bytes (0..255).  Python slices and      *)
(* struct.unpack are modelled by what they do: a slice clips at the end of *)
(* the buffer, an unpack of a slice of the wrong size raises.              *)
(***************************************************************************)
EXTENDS Integers, Sequences, FiniteSets, TLC

VARIABLES
    binarydata,   \* Reader.binarydata: the bytes of the input file
    pc,           \* "new" | "ready" | "purified" | "regrouped" | "raised" | "rejected"
    index,        \* Reader.index
    sfdu_list,    \* Reader.sfdu_list
    is_decoded,   \* Reader.is_decoded
    flags,        \* the stage flags of the last Reader.decode call
    full,         \* the summary of the last Info(f) in full mode
    quick,        \* the summary of the last Info(f, quicklook=True)
    fout,         \* the output file of a transform: one entry per write call
    args,         \* the options of the last run of a script
    stdout,       \* the warnings a script has printed
    ret,          \* how the last call of an accessor of a record ended
    requested     \* the records whose secondary stage a decode has requested

vars == <<binarydata, pc, index, sfdu_list, is_decoded, flags, full, quick, fout, args,
          stdout, ret, requested>>

-----------------------------------------------------------------------------
(* Bounds of the model *)

MaxRecords == 3
MaxPad == 1
MaxVariantRecords == 2
\* unpacked integers of MaxValue and above are identified with MaxValue
\* (Python's integers are unbounded; the files of the model are far shorter)
MaxValue == 1000000

-----------------------------------------------------------------------------
(* Bytes, slices and struct.unpack *)

Min(a, b) == IF a < b THEN a ELSE b

\* Python b[lo:hi] for 0 <= lo <= hi: 0-based, half open, clipped at len(b)
PySlice(b, lo, hi) == SubSeq(b, lo + 1, Min(hi, Len(b)))

\* struct.unpack of an unsigned big-endian integer
RECURSIVE BigEndian(_)
BigEndian(b) ==
    IF b = <<>> THEN 0
    ELSE LET hi == BigEndian(SubSeq(b, 1, Len(b) - 1))
         IN  IF 256 * hi + b[Len(b)] >= MaxValue THEN MaxValue
             ELSE 256 * hi + b[Len(b)]

\* the n bytes of v, most significant first
RECURSIVE ToBytes(_, _)
ToBytes(v, n) ==
    IF n = 0 THEN <<>> ELSE Append(ToBytes(v \div 256, n - 1), v % 256)

RECURSIVE Flatten(_)
Flatten(ss) == IF ss = <<>> THEN <<>> ELSE Head(ss) \o Flatten(Tail(ss))

\* byte offsets the source reads
LenLo == 12
LenHi == 20
Overhead == 20
DdidLo == 8
DdidHi == 12
FormatCodeOff == 31
StnOff == 66
BandOff == 67
ModeOff == 69

-----------------------------------------------------------------------------
(* Reader.sfdu_index *)

\* the while loop without the fixed overhead of a record
RECURSIVE IndexLoopNoOverhead(_, _)
IndexLoopNoOverhead(data, ind) ==
    LET N == Len(data)
        next_ind == ind[Len(ind)]
        field == PySlice(data, next_ind + LenLo, next_ind + LenHi)
    IN  IF next_ind < N
        THEN IF Len(field) # LenHi - LenLo
             THEN [raised |-> TRUE, ind |-> ind]
             ELSE IndexLoopNoOverhead(data, Append(ind, BigEndian(field) + next_ind))
        ELSE [raised |-> FALSE, ind |-> ind]

\* the while loop of sfdu_index; offset always equals ind[-1]
RECURSIVE IndexLoop(_, _)
IndexLoop(data, ind) ==
    LET N == Len(data)
        next_ind == ind[Len(ind)]
        field == PySlice(data, next_ind + LenLo, next_ind + LenHi)
    IN  IF next_ind < N
        THEN IF Len(field) # LenHi - LenLo
             THEN [raised |-> TRUE, ind |-> ind]
             ELSE IndexLoop(data, Append(ind, BigEndian(field) + Overhead + next_ind))
        ELSE [raised |-> FALSE, ind |-> ind]

\* sfdu_index with the list of boundaries starting as [0, 0]
sfdu_index_two_starts(data) == IndexLoop(data, <<0, 0>>)

sfdu_index(data) == IndexLoop(data, <<0>>)

-----------------------------------------------------------------------------
(* The record components (trk234.components): fixed-offset decoders *)

C123 == <<67, 49, 50, 51>>
C124 == <<67, 49, 50, 52>>
C125 == <<67, 49, 50, 53>>
C126 == <<67, 49, 50, 54>>
C127 == <<67, 49, 50, 55>>

\* util.data_descriptions.keys(), util.format_codes.keys(), util.bands
data_descriptions == {C123, C124, C125, C126, C127}
format_codes == 0..17
bands == <<"Unknown", "S", "X", "Ka", "Ku", "L">>
Band(i) == bands[i + 1]

\* the extent of each fixed header and the offsets of the secondary fields
LabelEnd == 20
AggEnd == 24
PriEnd == 32
SecEnd == 72
ScftOff == 39
YearOff == 44
DoyOff == 46
SecOff == 48
ModDayOff == 56
ModMsecOff == 58
CntTimeOff == 64
PrdxStnOff == 70
VlbiDlBandOff == 65
VlbiDlStnOff == 68
VlbiDlStn2Off == 71

\* the value of an attribute no decode has set yet
NoCode == <<>>
NoFormat == -1
NoCHDO == [tag |-> "None"]

SFDULabel == [data_description_id |-> NoCode, sfdu_length |-> 0]
SFDUAggCHDO == [chdo_length |-> 0]
PrimaryCHDO == [format_code |-> NoFormat]

LabelDecode(b) ==
    [data_description_id |-> PySlice(b, DdidLo, DdidHi),
     sfdu_length |-> BigEndian(PySlice(b, LenLo, LenHi))]

AggDecode(b) == [chdo_length |-> BigEndian(PySlice(b, 22, 24))]

PriDecode(b) == [format_code |-> b[FormatCodeOff + 1]]

\* the fields every secondary variant carries
SecCommon(b) ==
    [scft_id |-> b[ScftOff + 1],
     year |-> BigEndian(PySlice(b, YearOff, YearOff + 2)),
     doy |-> BigEndian(PySlice(b, DoyOff, DoyOff + 2)),
     sec |-> BigEndian(PySlice(b, SecOff, SecOff + 8)),
     mod_day |-> BigEndian(PySlice(b, ModDayOff, ModDayOff + 2)),
     mod_msec |-> BigEndian(PySlice(b, ModMsecOff, ModMsecOff + 4))]

\* r extended with the fields of e
Extend(r, e) ==
    [k \in DOMAIN r \cup DOMAIN e |-> IF k \in DOMAIN e THEN e[k] ELSE r[k]]

\* the secondary variant selected by the data-description code, decoded
SecDecode(ddid, b) ==
    LET c == SecCommon(b)
        mode == [prdx_mode |-> b[ModeOff + 1], ul_prdx_stn |-> b[PrdxStnOff + 1],
                 cnt_time |-> b[CntTimeOff + 1]]
    IN  CASE ddid = C123 ->
               Extend(c, [tag |-> "Uplink",
                          ul_dss_id |-> b[StnOff + 1], ul_band |-> b[BandOff + 1]])
          [] ddid = C124 ->
               Extend(Extend(c, mode),
                      [tag |-> "Downlink",
                       dl_dss_id |-> b[StnOff + 1], dl_band |-> b[BandOff + 1]])
          [] ddid = C125 ->
               Extend(Extend(c, mode),
                      [tag |-> "Derived", dl_dss_id |-> b[StnOff + 1]])
          [] ddid = C126 ->
               Extend(Extend(c, mode),
                      [tag |-> "Inferometric",
                       ul_dss_id |-> b[StnOff + 1], ul_band |-> b[BandOff + 1],
                       dl_dss_id |-> b[VlbiDlStnOff + 1],
                       dl_band |-> b[VlbiDlBandOff + 1],
                       dl_dss_id_2 |-> b[VlbiDlStn2Off + 1]])
          [] ddid = C127 ->
               Extend(Extend(c, mode),
                      [tag |-> "Filtered",
                       dl_dss_id |-> b[StnOff + 1], dl_band |-> b[BandOff + 1]])

\* the tracking variant selected by the format code; its payload is what
\* follows the secondary header
TrkDecode(fc, b) == [tag |-> fc, payload |-> PySlice(b, SecEnd, Len(b))]

hasattr(obj, name) == name \in DOMAIN obj

-----------------------------------------------------------------------------
(* SFDU: the record facade *)

\* the stage flags of a decode call; by default every stage is decoded
FlagSet(l, a, p, s, t) ==
    [label |-> l, agg_chdo |-> a, pri_chdo |-> p, sec_chdo |-> s, trk_chdo |-> t]

AllStages == FlagSet(TRUE, TRUE, TRUE, TRUE, TRUE)
NoTracking == FlagSet(TRUE, TRUE, TRUE, TRUE, FALSE)
HeaderOnly == FlagSet(TRUE, TRUE, TRUE, FALSE, FALSE)

\* SFDU.__init__
NewSFDU ==
    [binarydata |-> <<>>, number |-> 0,
     label |-> SFDULabel, agg_chdo |-> SFDUAggCHDO, pri_chdo |-> PrimaryCHDO,
     sec_chdo |-> NoCHDO, trk_chdo |-> NoCHDO, is_decoded |-> FALSE]

\* how a call ends: it returns with the object in state s, or it raises
Returns(s) == [raised |-> FALSE, sfdu |-> s]
Raises == [raised |-> TRUE, sfdu |-> NewSFDU]

\* the else branch of the secondary dispatch: warn, clear the flag, return
UnknownSecondaryRaises(s) == Raises
UnknownSecondaryKeepsFlag(s) == Returns(s)
UnknownSecondaryMarksDecoded(s) == Returns([s EXCEPT !.is_decoded = TRUE])
UnknownSecondary(s) == Returns([s EXCEPT !.is_decoded = FALSE])

\* the else branch of the tracking dispatch: warn, clear the flag, return
UnknownTrackingRaises(s) == Raises
UnknownTrackingFlips(s) == Returns([s EXCEPT !.is_decoded = ~@])
UnknownTrackingClears(s) ==
    Returns([s EXCEPT !.sec_chdo = NoCHDO, !.is_decoded = FALSE])
UnknownTracking(s) == Returns([s EXCEPT !.is_decoded = FALSE])

\* SFDU.decode(binarystring, label, agg_chdo, pri_chdo, sec_chdo, trk_chdo);
\* a component's decode of a range shorter than its layout raises
SFDUDecode(self, b, f) ==
    LET s3 == [self EXCEPT
                 !.binarydata = b,
                 !.label = IF f.label THEN LabelDecode(b) ELSE @,
                 !.agg_chdo = IF f.agg_chdo THEN AggDecode(b) ELSE @,
                 !.pri_chdo = IF f.pri_chdo THEN PriDecode(b) ELSE @]
        ddid == IF f.label THEN LabelDecode(b).data_description_id
                ELSE self.label.data_description_id
        fc == IF f.pri_chdo THEN PriDecode(b).format_code
              ELSE self.pri_chdo.format_code
        s4 == [s3 EXCEPT !.sec_chdo = IF f.sec_chdo THEN SecDecode(ddid, b) ELSE @]
        s5 == [s4 EXCEPT !.trk_chdo = IF f.trk_chdo THEN TrkDecode(fc, b) ELSE @]
    IN  IF \/ f.label /\ Len(b) < LabelEnd
           \/ f.agg_chdo /\ Len(b) < AggEnd
           \/ f.pri_chdo /\ Len(b) < PriEnd
        THEN Raises
        ELSE IF f.sec_chdo /\ ddid \notin data_descriptions
        THEN UnknownSecondary(s3)
        ELSE IF f.sec_chdo /\ Len(b) < SecEnd
        THEN Raises
        ELSE IF f.trk_chdo /\ fc \notin format_codes
        THEN UnknownTracking(s4)
        ELSE Returns([s5 EXCEPT !.is_decoded = TRUE])

-----------------------------------------------------------------------------
(* Reader *)

\* the loop of Reader.decode collecting each record before the earlier ones
RECURSIVE DecodeLoopPrepending(_, _, _, _, _)
DecodeLoopPrepending(data, ind, f, i, sfdus) ==
    IF i >= Len(ind) - 1
    THEN [raised |-> FALSE, sfdus |-> sfdus]
    ELSE LET sfdu == [NewSFDU EXCEPT !.number = i]
             r == SFDUDecode(sfdu, PySlice(data, ind[i + 1], ind[i + 2]), f)
         IN  IF r.raised
             THEN [raised |-> TRUE, sfdus |-> sfdus]
             ELSE DecodeLoopPrepending(data, ind, f, i + 1, <<r.sfdu>> \o sfdus)

\* the loop of Reader.decode from record i on
RECURSIVE DecodeLoop(_, _, _, _, _)
DecodeLoop(data, ind, f, i, sfdus) ==
    IF i >= Len(ind) - 1
    THEN [raised |-> FALSE, sfdus |-> sfdus]
    ELSE LET sfdu == [NewSFDU EXCEPT !.number = i]
             r == SFDUDecode(sfdu, PySlice(data, ind[i + 1], ind[i + 2]), f)
         IN  IF r.raised
             THEN [raised |-> TRUE, sfdus |-> sfdus]
             ELSE DecodeLoop(data, ind, f, i + 1, Append(sfdus, r.sfdu))

ReaderDecode(data, ind, f) == DecodeLoop(data, ind, f, 0, <<>>)

\* Reader.index after Reader.decode with one more boundary appended to it
IndexAfterDecodeAppended(data, ind) == Append(ind, Len(data) + 1)

\* Reader.index after Reader.decode: the loop reads it under the name ind and
\* appends nothing to it
IndexAfterDecode(data, ind) == ind

\* the last frame of the file in the place of every frame
FrameLast(data, ind, i) == PySlice(data, ind[Len(ind) - 1], ind[Len(ind)])

\* frame i (from 1) of the file under the boundaries ind
Frame(data, ind, i) == PySlice(data, ind[i], ind[i + 1])

\* get_data_types reading the byte before the format code
get_data_types_byte30(data) ==
    LET j == sfdu_index(data).ind
        at(i) == PySlice(Frame(data, j, i), FormatCodeOff - 1, FormatCodeOff)
    IN  [raised |-> \E i \in 1..(Len(j) - 1) : Len(at(i)) # 1,
         fc |-> [i \in 1..(Len(j) - 1) |-> BigEndian(at(i))]]

\* Reader.get_data_types: byte 31 of every frame of a fresh index; the unpack
\* of a frame that has no byte 31 raises
get_data_types(data) ==
    LET j == sfdu_index(data).ind
        at(i) == PySlice(Frame(data, j, i), FormatCodeOff, FormatCodeOff + 1)
    IN  [raised |-> \E i \in 1..(Len(j) - 1) : Len(at(i)) # 1,
         fc |-> [i \in 1..(Len(j) - 1) |-> BigEndian(at(i))]]

-----------------------------------------------------------------------------
(* SFDU: the derived accessors *)

\* days from 0001-01-01 to January 1 of year y (datetime's proleptic calendar)
DaysBeforeYear(y) ==
    365 * (y - 1) + ((y - 1) \div 4) - ((y - 1) \div 100) + ((y - 1) \div 400)

\* SFDU.timestamp raising for a year datetime refuses and for nothing else
TimestampRaisesOnBadYear(s) ==
    hasattr(s.sec_chdo, "year") /\ s.sec_chdo.year \notin 1..9999

\* SFDU.timestamp raises when there is no secondary header or no such year
TimestampRaises(s) ==
    \/ ~hasattr(s.sec_chdo, "year")
    \/ s.sec_chdo.year \notin 1..9999

\* the exception that leaves SFDU.timestamp: the attribute access on the None
\* of a record without secondary header, or datetime refusing the year
TimestampError(s) ==
    IF s.sec_chdo = NoCHDO
    THEN [type |-> "AttributeError", object |-> "NoneType", attribute |-> "year"]
    ELSE [type |-> "ValueError", object |-> "datetime", attribute |-> "year"]

\* a point in time: <<day, part of the day>>, ordered as datetime orders
Before(t, u) == t[1] < u[1] \/ (t[1] = u[1] /\ t[2] <= u[2])
Earliest(S) == CHOOSE t \in S : \A u \in S : Before(t, u)
Latest(S) == CHOOSE t \in S : \A u \in S : Before(u, t)

\* SFDU.timestamp: <<days since 0001-01-01, seconds of the day>>
timestamp(s) ==
    <<DaysBeforeYear(s.sec_chdo.year) + s.sec_chdo.doy - 1 + (s.sec_chdo.sec \div 86400),
      s.sec_chdo.sec % 86400>>

LastModifiedRaises(s) == ~hasattr(s.sec_chdo, "mod_day")

\* SFDU.last_modified: <<days since 1958-01-01, milliseconds of the day>>
last_modified(s) ==
    <<s.sec_chdo.mod_day + (s.sec_chdo.mod_msec \div 86400000),
      s.sec_chdo.mod_msec % 86400000>>

\* a Python None
NoneValue == <<>>

\* SFDU.tracking_mode with mode 3 labelled without the uplink station
tracking_mode_without_station(s) ==
    IF s.label.data_description_id # C123
    THEN CASE s.sec_chdo.prdx_mode = 4 -> <<"Invalid">>
           [] s.sec_chdo.prdx_mode = 3 -> <<"3W">>
           [] s.sec_chdo.prdx_mode = 2 -> <<"2W">>
           [] s.sec_chdo.prdx_mode = 1 -> <<"1W">>
           [] s.sec_chdo.prdx_mode = 0 -> <<"None">>
           [] OTHER -> NoneValue
    ELSE <<"N/A">>

TrackingModeRaises(s) ==
    /\ s.label.data_description_id # C123
    /\ ~hasattr(s.sec_chdo, "prdx_mode")

\* SFDU.tracking_mode
tracking_mode(s) ==
    IF s.label.data_description_id # C123
    THEN CASE s.sec_chdo.prdx_mode = 4 -> <<"Invalid">>
           [] s.sec_chdo.prdx_mode = 3 -> <<"3W", s.sec_chdo.ul_prdx_stn>>
           [] s.sec_chdo.prdx_mode = 2 -> <<"2W">>
           [] s.sec_chdo.prdx_mode = 1 -> <<"1W">>
           [] s.sec_chdo.prdx_mode = 0 -> <<"None">>
           [] OTHER -> NoneValue
    ELSE <<"N/A">>

\* SFDU.dss_id without the test of the uplink station
dss_id_downlink_only(s) ==
    <<0, IF hasattr(s.sec_chdo, "dl_dss_id") THEN s.sec_chdo.dl_dss_id ELSE 0>>

\* the fields SFDU.dss_id returns, absent ones as 0
dss_id(s) ==
    <<IF hasattr(s.sec_chdo, "ul_dss_id") THEN s.sec_chdo.ul_dss_id ELSE 0,
      IF hasattr(s.sec_chdo, "dl_dss_id") THEN s.sec_chdo.dl_dss_id ELSE 0>>

\* the band codes SFDU.radio_band looks up, absent ones as 0
band_codes(s) ==
    <<IF hasattr(s.sec_chdo, "ul_band") THEN s.sec_chdo.ul_band ELSE 0,
      IF hasattr(s.sec_chdo, "dl_band") THEN s.sec_chdo.dl_band ELSE 0>>

\* the lookup of a code that is not a key of util.bands raises
RadioBandRaises(s) == band_codes(s)[1] \notin 0..5 \/ band_codes(s)[2] \notin 0..5

\* SFDU.radio_band
radio_band(s) == <<Band(band_codes(s)[1]), Band(band_codes(s)[2])>>

-----------------------------------------------------------------------------
(* util.types and Info *)

Range(q) == { q[i] : i \in DOMAIN q }

\* util.types with the records of every code above 17 counted under 17
types_lumping_above(list) ==
    [i \in 1..18 |->
        Cardinality({ k \in DOMAIN list :
                        \/ list[k].pri_chdo.format_code = i - 1
                        \/ i = 18 /\ list[k].pri_chdo.format_code > 17 })]

\* util.types: entry i + 1 counts the records of format code i
types(list) ==
    [i \in 1..18 |->
        Cardinality({ k \in DOMAIN list : list[k].pri_chdo.format_code = i - 1 })]

\* the codes with a nonzero count, ascending
DataTypesOf(n) == SelectSeq([i \in 1..18 |-> i - 1], LAMBDA c : n[c + 1] # 0)

Decoded(list) == { k \in DOMAIN list : list[k].is_decoded }
WithCode(list, ddid) == { k \in DOMAIN list : list[k].label.data_description_id = ddid }

\* get_info with nothing read of a Derived record
InfoReadsSkippingDerived(ddid) ==
    CASE ddid = C123 -> {"ul_dss_id", "ul_band"}
      [] ddid = C124 -> {"dl_dss_id", "dl_band"}
      [] ddid = C126 -> {"ul_dss_id", "dl_dss_id", "dl_dss_id_2", "dl_band", "ul_band"}
      [] ddid = C127 -> {"dl_dss_id", "dl_band"}
      [] OTHER -> {}

\* the attributes get_info reads of a record with data-description code ddid
InfoReads(ddid) ==
    CASE ddid = C123 -> {"ul_dss_id", "ul_band"}
      [] ddid = C124 -> {"dl_dss_id", "dl_band"}
      [] ddid = C125 -> {"dl_dss_id"}
      [] ddid = C126 -> {"ul_dss_id", "dl_dss_id", "dl_dss_id_2", "dl_band", "ul_band"}
      [] ddid = C127 -> {"dl_dss_id", "dl_band"}
      [] OTHER -> {}

\* the values of attribute a over the records of list that get_info reads it of
Collected(list, a) ==
    { list[k].sec_chdo[a] :
        k \in { j \in DOMAIN list : a \in InfoReads(list[j].label.data_description_id) } }

\* an exception leaves get_info: a decoded record without a secondary header,
\* no decoded record at all, a missing attribute, a band outside the table
GetInfoRaises(list) ==
    \/ \E k \in Decoded(list) : TimestampRaises(list[k]) \/ LastModifiedRaises(list[k])
    \/ Decoded(list) = {}
    \/ \E k \in DOMAIN list :
          \/ \E a \in InfoReads(list[k].label.data_description_id) :
                ~hasattr(list[k].sec_chdo, a)
          \/ /\ list[k].label.data_description_id \in {C124, C125, C126, C127}
             /\ TrackingModeRaises(list[k])
          \/ /\ list[k].pri_chdo.format_code = 16
             /\ ~hasattr(list[k].sec_chdo, "cnt_time")
    \/ \E b \in Collected(list, "dl_band") \cup Collected(list, "ul_band") :
          b \notin 0..5

Raised == [state |-> "raised"]

\* Info.get_info
get_info(list) ==
    IF GetInfoRaises(list) THEN Raised
    ELSE
    [state |-> "ok",
     numRecords |-> Len(list),
     numberDataTypes |-> types(list),
     dataTypes |-> DataTypesOf(types(list)),
     startTime |-> Earliest({ timestamp(list[k]) : k \in Decoded(list) }),
     endTime |-> Latest({ timestamp(list[k]) : k \in Decoded(list) }),
     lastModified |-> Latest({ last_modified(list[k]) : k \in Decoded(list) }),
     spacecraftId |-> { list[k].sec_chdo.scft_id : k \in Decoded(list) },
     dataDescriptionIds |-> { list[k].label.data_description_id : k \in DOMAIN list },
     dnlinkDssId |-> Collected(list, "dl_dss_id") \cup Collected(list, "dl_dss_id_2"),
     uplinkDssId |-> Collected(list, "ul_dss_id"),
     dnlinkBand |-> { Band(b) : b \in Collected(list, "dl_band") },
     uplinkBand |-> { Band(b) : b \in Collected(list, "ul_band") },
     trackingMode |->
        { tracking_mode(list[k]) :
            k \in { j \in DOMAIN list :
                      list[j].label.data_description_id \in {C124, C125, C126, C127} } },
     dopplerCountTime |->
        { list[k].sec_chdo.cnt_time :
            k \in { j \in DOMAIN list : list[j].pri_chdo.format_code = 16 } }]

\* an exception leaves quicklook: a frame too short for a byte it unpacks, a
\* code that is not ASCII, a band outside the table, no first or last frame,
\* a first or last record whose decode or timestamp raises
QuicklookRaises(data, ind) ==
    LET n == Len(ind) - 1
        ddid(i) == PySlice(Frame(data, ind, i), DdidLo, DdidHi)
        reads(i) == CASE ddid(i) = C124 -> {StnOff, BandOff, ModeOff}
                      [] ddid(i) = C123 -> {StnOff, BandOff}
                      [] OTHER -> {}
        first == SFDUDecode(NewSFDU, Frame(data, ind, 1), AllStages)
        last == SFDUDecode(NewSFDU, Frame(data, ind, n), AllStages)
    IN  \/ get_data_types(data).raised
        \/ \E i \in 1..n :
              \/ Len(ddid(i)) # DdidHi - DdidLo
              \/ \E c \in Range(ddid(i)) : c >= 128
              \/ \E o \in reads(i) : Len(Frame(data, ind, i)) <= o
              \/ /\ BandOff \in reads(i)
                 /\ Frame(data, ind, i)[BandOff + 1] \notin 0..5
        \/ n < 1
        \/ first.raised \/ last.raised
        \/ TimestampRaises(first.sfdu) \/ TimestampRaises(last.sfdu)

\* quicklook keeping none of the modes it has read
QuickModesNone(modes) == {}

\* the prdx_mode values quicklook turns into tracking modes
QuickModes(modes) == modes \cap {1, 2, 3}

\* Info.quicklook
quicklook(data, ind) ==
    IF QuicklookRaises(data, ind) THEN Raised
    ELSE
    LET n == Len(ind) - 1
        fcs == get_data_types(data).fc
        number == [i \in 1..18 |-> Cardinality({ k \in DOMAIN fcs : fcs[k] = i - 1 })]
        ddid(i) == PySlice(Frame(data, ind, i), DdidLo, DdidHi)
        byte(i, o) == Frame(data, ind, i)[o + 1]
        dn == { i \in 1..n : ddid(i) = C124 }
        up == { i \in 1..n : ddid(i) = C123 }
        start == SFDUDecode(NewSFDU, Frame(data, ind, 1), AllStages).sfdu
        end == SFDUDecode(NewSFDU, Frame(data, ind, n), AllStages).sfdu
    IN
    [state |-> "ok",
     numRecords |-> n,
     numberDataTypes |-> number,
     dataTypes |-> DataTypesOf(number),
     startTime |-> timestamp(start),
     endTime |-> timestamp(end),
     lastModified |-> timestamp(end),
     spacecraftId |-> { start.sec_chdo.scft_id },
     dataDescriptionIds |-> { ddid(i) : i \in 1..n },
     dnlinkDssId |-> { byte(i, StnOff) : i \in dn },
     uplinkDssId |-> { byte(i, StnOff) : i \in up },
     dnlinkBand |-> { Band(byte(i, BandOff)) : i \in dn },
     uplinkBand |-> { Band(byte(i, BandOff)) : i \in up },
     trackingMode |->
        { CASE m = 1 -> <<"1W">> [] m = 2 -> <<"2W">> [] m = 3 -> <<"3W">> :
            m \in QuickModes({ byte(i, ModeOff) : i \in dn }) },
     dopplerCountTime |-> {}]

-----------------------------------------------------------------------------
(* trk234_purify and trk234_regroup *)

\* an option of the command line: <<>> when not supplied, <<v>> when supplied
Supplied(opt) == opt # <<>>

\* the loop without the test of the format code
FormatKnownAlways(s) == TRUE

\* the test of the format code against the table
FormatKnown(s) == s.pri_chdo.format_code \in format_codes

\* the loop without the test of the downlink station
DlStationFailsNever(s, a) == FALSE

\* the test of the downlink station, applied only when the variant has one
DlStationFails(s, a) ==
    /\ Supplied(a.dl_dss_id) /\ hasattr(s.sec_chdo, "dl_dss_id")
    /\ a.dl_dss_id[1] # s.sec_chdo.dl_dss_id

\* what the loop body of trk234_purify does with record s under options a:
\* the tests in the order of the code, each ending the iteration
Verdict(s, a) ==
    LET sec == s.sec_chdo
    IN  IF s.label.data_description_id \notin data_descriptions THEN "discard"
        ELSE IF ~FormatKnown(s) THEN "discard"
        ELSE IF Supplied(a.format_code) /\ a.format_code[1] # s.pri_chdo.format_code
        THEN "discard"
        ELSE IF /\ Supplied(a.ul_dss_id) /\ hasattr(sec, "ul_dss_id")
                /\ a.ul_dss_id[1] # sec.ul_dss_id
        THEN "discard"
        ELSE IF /\ Supplied(a.ul_band) /\ hasattr(sec, "ul_band")
                /\ sec.ul_band \notin 0..5
        THEN "raise"
        ELSE IF /\ Supplied(a.ul_band) /\ hasattr(sec, "ul_band")
                /\ a.ul_band[1] # Band(sec.ul_band)
        THEN "discard"
        ELSE IF DlStationFails(s, a) THEN "discard"
        ELSE IF /\ Supplied(a.dl_band) /\ hasattr(sec, "dl_band")
                /\ sec.dl_band \notin 0..5
        THEN "raise"
        ELSE IF /\ Supplied(a.dl_band) /\ hasattr(sec, "dl_band")
                /\ a.dl_band[1] # Band(sec.dl_band)
        THEN "discard"
        ELSE "write"

\* the loop of trk234_purify from record i on: the writes made, and whether
\* an exception ended it
RECURSIVE PurifyLoop(_, _, _, _)
PurifyLoop(list, a, i, out) ==
    IF i > Len(list) THEN [raised |-> FALSE, out |-> out]
    ELSE LET v == Verdict(list[i], a)
         IN  IF v = "raise" THEN [raised |-> TRUE, out |-> out]
             ELSE PurifyLoop(list, a, i + 1,
                             IF v = "write" THEN Append(out, list[i].binarydata)
                             ELSE out)

\* only the first record of list with format code c
OfTypeFirstOnly(list, c) ==
    LET sel == SelectSeq(list, LAMBDA x : x.pri_chdo.format_code = c)
    IN  IF sel = <<>> THEN <<>> ELSE <<sel[1]>>

\* the records of list with format code c, in list order
OfType(list, c) == SelectSeq(list, LAMBDA x : x.pri_chdo.format_code = c)

\* the writes with only the label of each record
BytesOfLabels(list) == [k \in DOMAIN list |-> PySlice(list[k].binarydata, 0, LabelEnd)]

\* what the write loop over list writes: the byte range each record holds
BytesOf(list) == [k \in DOMAIN list |-> list[k].binarydata]

\* the loop over sort_types with each group written before the earlier ones
RECURSIVE RegroupLoopDescending(_, _, _)
RegroupLoopDescending(list, c, out) ==
    IF c > 17 THEN out
    ELSE RegroupLoopDescending(list, c + 1, BytesOf(OfType(list, c)) \o out)

\* the loop of trk234_regroup over sort_types from code c on
RECURSIVE RegroupLoop(_, _, _)
RegroupLoop(list, c, out) ==
    IF c > 17 THEN out
    ELSE RegroupLoop(list, c + 1, out \o BytesOf(OfType(list, c)))

\* the two warnings of the validation
WarnNumber == "WARNING: files contain different number of SFDUs!"
WarnTypes == "WARNING: files contain different numbers of data types!"

\* the validation of trk234_regroup: a second Reader of the file input, its
\* headers decoded, compared with the records sfdus of the first
Validate(input, sfdus) ==
    LET r2 == sfdu_index(input)
        f2 == ReaderDecode(input, r2.ind, HeaderOnly)
        sfdus2 == f2.sfdus
    IN  [raised |-> r2.raised \/ f2.raised,
         warnings |->
            (IF Len(sfdus) # Len(sfdus2) THEN {WarnNumber} ELSE {})
            \cup (IF types(sfdus) # types(sfdus2) THEN {WarnTypes} ELSE {})]

-----------------------------------------------------------------------------
(* The input files of the model *)

Unknown == <<67, 49, 50, 56>>

\* the kinds of record a file is made of: every field the model reads
Kind(ddid, fc, doy, sec, stn, band, mode, pad) ==
    [ddid |-> ddid, fc |-> fc, year |-> 2020, doy |-> doy, sec |-> sec,
     scft |-> 61, stn |-> stn, band |-> band, mode |-> mode, pad |-> pad]

RecKinds ==
    { Kind(C124, 1, 10, 100, 14, 2, 2, 0),
      Kind(C123, 9, 10, 50, 14, 2, 0, MaxPad),
      Kind(C124, 1, 9, 200, 25, 1, 1, 0),
      Kind(Unknown, 1, 11, 0, 14, 2, 2, 0),
      Kind(C124, 18, 8, 0, 14, 2, 2, MaxPad) }

\* byte o of the record of kind k that is number seq in its file
ByteAt(k, seq, o) ==
    CASE o \in 0..3 -> <<78, 74, 80, 76>>[o + 1]
      [] o \in DdidLo..(DdidHi - 1) -> k.ddid[o - DdidLo + 1]
      [] o \in LenLo..(LenHi - 1) ->
           ToBytes(SecEnd + k.pad - Overhead, 8)[o - LenLo + 1]
      [] o = FormatCodeOff -> k.fc
      [] o = ScftOff -> k.scft
      [] o = 43 -> seq
      [] o \in YearOff..(YearOff + 1) -> ToBytes(k.year, 2)[o - YearOff + 1]
      [] o \in DoyOff..(DoyOff + 1) -> ToBytes(k.doy, 2)[o - DoyOff + 1]
      [] o \in SecOff..(SecOff + 7) -> ToBytes(k.sec, 8)[o - SecOff + 1]
      [] o = StnOff -> k.stn
      [] o = BandOff -> k.band
      [] o = ModeOff -> k.mode
      [] o = PrdxStnOff -> k.stn
      [] o = CntTimeOff -> 10
      [] o = VlbiDlBandOff -> k.band + 1
      [] o = VlbiDlStnOff -> k.stn + 1
      [] o = VlbiDlStn2Off -> k.stn + 2
      [] OTHER -> 0

MkRecord(k, seq) == [i \in 1..(SecEnd + k.pad) |-> ByteAt(k, seq, i - 1)]

\* a file is a chain of whole records, or such a chain cut short
Cuts == {0, 5, 60}

\* the files made of n whole records, the last one cut short by cut bytes
FilesOf(n) ==
    { SubSeq(Flatten([i \in 1..n |-> MkRecord(ks[i], i - 1)]), 1,
             Len(Flatten([i \in 1..n |-> MkRecord(ks[i], i - 1)])) - cut) :
        ks \in [1..n -> RecKinds], cut \in IF n = 0 THEN {0} ELSE Cuts }

Files == UNION { FilesOf(n) : n \in 0..MaxRecords }

\* one kind of record for each secondary variant, and two of unknown
\* data-description code, one of them with the format code of the
\* Doppler-count-time records
VariantKinds ==
    { Kind(C123, 9, 10, 50, 14, 2, 0, 0),
      Kind(C124, 1, 10, 100, 15, 1, 2, 0),
      Kind(C125, 7, 10, 150, 24, 2, 1, 0),
      Kind(C126, 10, 9, 200, 34, 3, 3, 0),
      Kind(C127, 16, 11, 20, 43, 1, 2, 0),
      Kind(Unknown, 1, 8, 0, 54, 2, 2, 0),
      Kind(Unknown, 16, 12, 0, 63, 2, 2, 0) }

\* the whole files of n records of these kinds
VariantFilesOf(n) ==
    { Flatten([i \in 1..n |-> MkRecord(ks[i], i - 1)]) : ks \in [1..n -> VariantKinds] }

VariantFiles == UNION { VariantFilesOf(n) : n \in 1..MaxVariantRecords }

\* the kinds of record the accessors are called on: every secondary variant,
\* mode codes inside and outside 0..4, band codes inside and outside the
\* table, unknown data-description and format codes
RecordKinds ==
    { Kind(C124, 1, 10, 100, 14, 2, m, 0) : m \in {0, 1, 2, 3, 4, 5, 255} }
    \cup { Kind(C123, 9, 10, 50, 24, 1, 2, 0),
           Kind(C125, 7, 10, 150, 34, 2, 3, 0),
           Kind(C125, 7, 10, 150, 34, 2, 5, 0),
           Kind(C126, 10, 9, 200, 43, 3, 4, 0),
           Kind(C126, 10, 9, 200, 43, 3, 255, 0),
           Kind(C127, 16, 11, 20, 54, 5, 0, 0),
           Kind(C124, 1, 10, 100, 14, 6, 2, 0),
           Kind(C123, 9, 10, 50, 24, 255, 0, 0),
           Kind(C124, 18, 8, 0, 14, 2, 2, 0),
           Kind(Unknown, 1, 11, 0, 63, 2, 2, 0),
           Kind(Unknown, 18, 11, 0, 63, 2, 1, 0) }

\* the files of one whole record of these kinds
RecordFiles == { MkRecord(k, 0) : k \in RecordKinds }

\* the stages the scripts decode after the headers
SecondaryAndTracking == FlagSet(FALSE, FALSE, FALSE, TRUE, TRUE)

FlagChoices ==
    { AllStages, NoTracking, HeaderOnly,
      FlagSet(FALSE, TRUE, TRUE, TRUE, TRUE),
      FlagSet(TRUE, TRUE, FALSE, TRUE, TRUE),
      FlagSet(TRUE, TRUE, FALSE, TRUE, FALSE) }

StageChoices == FlagChoices \cup {SecondaryAndTracking}

Options(f, u, d, a, b) ==
    [format_code |-> f, ul_dss_id |-> u, dl_dss_id |-> d, ul_band |-> a, dl_band |-> b]

NoOptions == Options(<<>>, <<>>, <<>>, <<>>, <<>>)

\* no option, each option alone, every option
ArgChoices ==
    { NoOptions,
      Options(<<1>>, <<>>, <<>>, <<>>, <<>>),
      Options(<<>>, <<14>>, <<>>, <<>>, <<>>),
      Options(<<>>, <<>>, <<14>>, <<>>, <<>>),
      Options(<<>>, <<>>, <<>>, <<"X">>, <<>>),
      Options(<<>>, <<>>, <<>>, <<>>, <<"X">>),
      Options(<<1>>, <<14>>, <<14>>, <<"X">>, <<"X">>) }

\* a label that declares len bytes to follow it, and the bytes
Chunk(len) ==
    [i \in 1..(LabelEnd + len) |->
        CASE i - 1 \in 0..3 -> <<78, 74, 80, 76>>[i]
          [] i - 1 \in LenLo..(LenHi - 1) -> ToBytes(len, 8)[i - LenLo]
          [] OTHER -> 0]

\* the lengths a label declares, and the bytes missing at the end of a buffer
DeclaredLengths == {0, 1, 32}
FramingCuts == {0, 1, 9}

\* the buffers of n labels with what they declare, cut short or not; n = 0
\* gives the empty buffer
FramingFilesOf(n) ==
    { SubSeq(Flatten([i \in 1..n |-> Chunk(ls[i])]), 1,
             Len(Flatten([i \in 1..n |-> Chunk(ls[i])])) - cut) :
        ls \in [1..n -> DeclaredLengths], cut \in IF n = 0 THEN {0} ELSE FramingCuts }

FramingFiles == UNION { FramingFilesOf(n) : n \in 0..MaxRecords }

\* the two band options: not supplied, a label of the table, the K of the
\* synopsis, a letter that is no band
BandChoices == {<<>>, <<"X">>, <<"Ka">>, <<"K">>, <<"Q">>}

BandArgChoices ==
    { Options(<<>>, <<>>, <<>>, a, b) : a \in BandChoices, b \in BandChoices }

NoSummary == [state |-> "none"]
NoArgs == [state |-> "none"]
NoCall == [call |-> "none"]

\* the records of list whose secondary stage a decode with flags f requests
Requested(list, f) == IF f.sec_chdo THEN DOMAIN list ELSE {}

-----------------------------------------------------------------------------
(* The operations *)

Init ==
    /\ binarydata \in Files
    /\ pc = "new"
    /\ index = <<>>
    /\ sfdu_list = <<>>
    /\ is_decoded = FALSE
    /\ flags = AllStages
    /\ full = NoSummary
    /\ quick = NoSummary
    /\ fout = <<>>
    /\ args = NoArgs
    /\ stdout = {}
    /\ ret = NoCall
    /\ requested = {}

\* Reader.__init__: read the file and index it
ReaderInit ==
    /\ pc = "new"
    /\ LET r == sfdu_index(binarydata)
       IN  IF r.raised
           THEN pc' = "raised" /\ index' = index
           ELSE pc' = "ready" /\ index' = r.ind
    /\ UNCHANGED <<binarydata, sfdu_list, is_decoded, flags, full, quick, fout, args, stdout,
                 ret, requested>>

\* Reader.decode(label, agg_chdo, pri_chdo, sec_chdo, trk_chdo)
Decode(f) ==
    /\ pc = "ready"
    /\ full = NoSummary /\ quick = NoSummary
    /\ LET r == ReaderDecode(binarydata, index, f)
       IN  IF r.raised
           THEN pc' = "raised" /\ UNCHANGED <<sfdu_list, is_decoded, requested>>
           ELSE /\ pc' = pc /\ sfdu_list' = r.sfdus /\ is_decoded' = TRUE
                /\ requested' = Requested(r.sfdus, f)
    /\ flags' = f
    /\ index' = IndexAfterDecode(binarydata, index)
    /\ UNCHANGED <<binarydata, full, quick, fout, args, stdout, ret>>

\* Info(f): decode the stream without the tracking stage unless the Reader
\* is decoded already, then get_info
InfoFull ==
    /\ pc = "ready"
    /\ LET r == ReaderDecode(binarydata, index, NoTracking)
           list == IF is_decoded THEN sfdu_list ELSE r.sfdus
       IN  IF ~is_decoded /\ r.raised
           THEN /\ full' = Raised /\ pc' = "raised"
                /\ UNCHANGED <<sfdu_list, is_decoded, flags, requested>>
           ELSE /\ full' = get_info(list)
                /\ pc' = IF get_info(list) = Raised THEN "raised" ELSE pc
                /\ sfdu_list' = list
                /\ is_decoded' = TRUE
                /\ flags' = IF is_decoded THEN flags ELSE NoTracking
                /\ requested' = IF is_decoded THEN requested
                                ELSE Requested(list, NoTracking)
    /\ index' = IF is_decoded THEN index ELSE IndexAfterDecode(binarydata, index)
    /\ UNCHANGED <<binarydata, quick, fout, args, stdout, ret>>

\* Info(f, quicklook=True)
InfoQuick ==
    /\ pc = "ready"
    /\ quick' = quicklook(binarydata, index)
    /\ pc' = IF quicklook(binarydata, index) = Raised THEN "raised" ELSE pc
    /\ UNCHANGED <<binarydata, index, sfdu_list, is_decoded, flags, full, fout, args, stdout,
                   ret, requested>>

\* trk234_purify main(args): read and index the file, decode it without the
\* tracking stage, write the records that pass
PurifyMain(a) ==
    /\ pc = "new"
    /\ args' = a
    /\ LET r == sfdu_index(binarydata)
           d == ReaderDecode(binarydata, r.ind, NoTracking)
           w == PurifyLoop(d.sfdus, a, 1, <<>>)
       IN  IF r.raised
           THEN /\ pc' = "raised"
                /\ UNCHANGED <<index, sfdu_list, is_decoded, flags, fout, requested>>
           ELSE IF d.raised
           THEN /\ pc' = "raised" /\ flags' = NoTracking
                /\ index' = IndexAfterDecode(binarydata, r.ind)
                /\ UNCHANGED <<sfdu_list, is_decoded, fout, requested>>
           ELSE /\ pc' = IF w.raised THEN "raised" ELSE "purified"
                /\ index' = IndexAfterDecode(binarydata, r.ind)
                /\ sfdu_list' = d.sfdus
                /\ is_decoded' = TRUE
                /\ flags' = NoTracking
                /\ requested' = Requested(d.sfdus, NoTracking)
                /\ fout' = w.out
    /\ UNCHANGED <<binarydata, full, quick, stdout, ret>>

\* opt not in trk234.bands.values(): None is no band label
NotInBands(opt) == IF Supplied(opt) THEN opt[1] \notin Range(bands) ELSE TRUE

\* the validation of the band options before main(args):
\*   dl_band not in bands.values() and dl_band is not None, then
\*   ul_band not in bands.values() and dl_band is not None
BandOptionsRejected(a) ==
    \/ NotInBands(a.dl_band) /\ Supplied(a.dl_band)
    \/ NotInBands(a.ul_band) /\ Supplied(a.dl_band)

\* trk234_purify run as a script: parser.error('invalid band ...') ends the
\* run when the validation rejects the options, else main(args) runs
PurifyScript(a) ==
    \/ /\ pc = "new"
       /\ BandOptionsRejected(a)
       /\ pc' = "rejected"
       /\ args' = a
       /\ UNCHANGED <<binarydata, index, sfdu_list, is_decoded, flags, full, quick, fout,
                      stdout, ret, requested>>
    \/ /\ ~BandOptionsRejected(a)
       /\ PurifyMain(a)

\* trk234_regroup main(args): read and index the file, decode the headers,
\* write the records of each format code 0..17 in turn, then validate when
\* args.validate is set
RegroupMain(validate) ==
    /\ pc = "new"
    /\ args' = [validate |-> validate]
    /\ LET r == sfdu_index(binarydata)
           d == ReaderDecode(binarydata, r.ind, HeaderOnly)
           v == Validate(binarydata, d.sfdus)
       IN  IF r.raised
           THEN /\ pc' = "raised"
                /\ UNCHANGED <<index, sfdu_list, is_decoded, flags, fout, stdout, requested>>
           ELSE IF d.raised
           THEN /\ pc' = "raised" /\ flags' = HeaderOnly
                /\ index' = IndexAfterDecode(binarydata, r.ind)
                /\ UNCHANGED <<sfdu_list, is_decoded, fout, stdout, requested>>
           ELSE /\ pc' = IF validate /\ v.raised THEN "raised" ELSE "regrouped"
                /\ index' = IndexAfterDecode(binarydata, r.ind)
                /\ sfdu_list' = d.sfdus
                /\ is_decoded' = TRUE
                /\ flags' = HeaderOnly
                /\ requested' = Requested(d.sfdus, HeaderOnly)
                /\ fout' = RegroupLoop(d.sfdus, 0, <<>>)
                /\ stdout' = IF validate /\ ~v.raised THEN v.warnings ELSE stdout
    /\ UNCHANGED <<binarydata, full, quick, ret>>

\* sfdu.decode(sfdu.binarydata, ...) on record k of the Reader: SFDU.decode on
\* the object Reader.decode made, with the bytes it holds
Redecode(k, f) ==
    /\ pc = "ready"
    /\ k \in DOMAIN sfdu_list
    /\ LET r == SFDUDecode(sfdu_list[k], sfdu_list[k].binarydata, f)
       IN  IF r.raised
           THEN pc' = "raised" /\ UNCHANGED <<sfdu_list, requested>>
           ELSE /\ pc' = pc
                /\ sfdu_list' = [sfdu_list EXCEPT ![k] = r.sfdu]
                /\ requested' = IF f.sec_chdo THEN requested \cup {k} ELSE requested
    /\ UNCHANGED <<binarydata, index, is_decoded, flags, full, quick, fout, args, stdout, ret>>

\* how a call of an accessor on record k ended
Call(name, k, raised, value) ==
    [call |-> name, number |-> k, raised |-> raised, value |-> value]

\* sfdu.tracking_mode() on record k of the Reader
TrackingMode(k) ==
    /\ pc = "ready"
    /\ k \in DOMAIN sfdu_list
    /\ ret' = IF TrackingModeRaises(sfdu_list[k])
              THEN Call("tracking_mode", k, TRUE, NoneValue)
              ELSE Call("tracking_mode", k, FALSE, tracking_mode(sfdu_list[k]))
    /\ UNCHANGED <<binarydata, pc, index, sfdu_list, is_decoded, flags, full, quick, fout,
                   args, stdout, requested>>

\* sfdu.dss_id() on record k of the Reader
DssId(k) ==
    /\ pc = "ready"
    /\ k \in DOMAIN sfdu_list
    /\ ret' = Call("dss_id", k, FALSE, dss_id(sfdu_list[k]))
    /\ UNCHANGED <<binarydata, pc, index, sfdu_list, is_decoded, flags, full, quick, fout,
                   args, stdout, requested>>

\* sfdu.radio_band() on record k of the Reader
RadioBand(k) ==
    /\ pc = "ready"
    /\ k \in DOMAIN sfdu_list
    /\ ret' = IF RadioBandRaises(sfdu_list[k])
              THEN Call("radio_band", k, TRUE, NoneValue)
              ELSE Call("radio_band", k, FALSE, radio_band(sfdu_list[k]))
    /\ UNCHANGED <<binarydata, pc, index, sfdu_list, is_decoded, flags, full, quick, fout,
                   args, stdout, requested>>

Next ==
    \/ ReaderInit
    \/ \E a \in ArgChoices : PurifyMain(a)
    \/ \E validate \in BOOLEAN : RegroupMain(validate)
    \/ \E f \in FlagChoices : Decode(f)
    \/ InfoFull
    \/ InfoQuick

Spec == Init /\ [][Next]_vars

\* the Reader and Info on files that hold every secondary variant
InitVariants ==
    /\ binarydata \in VariantFiles
    /\ pc = "new"
    /\ index = <<>>
    /\ sfdu_list = <<>>
    /\ is_decoded = FALSE
    /\ flags = AllStages
    /\ full = NoSummary
    /\ quick = NoSummary
    /\ fout = <<>>
    /\ args = NoArgs
    /\ stdout = {}
    /\ ret = NoCall
    /\ requested = {}

NextVariants ==
    \/ ReaderInit
    \/ \E f \in FlagChoices : Decode(f)
    \/ InfoFull
    \/ InfoQuick

SpecVariants == InitVariants /\ [][NextVariants]_vars

\* the Reader, the staged decode of the scripts and the accessors of a record
InitRecord ==
    /\ binarydata \in RecordFiles
    /\ pc = "new"
    /\ index = <<>>
    /\ sfdu_list = <<>>
    /\ is_decoded = FALSE
    /\ flags = AllStages
    /\ full = NoSummary
    /\ quick = NoSummary
    /\ fout = <<>>
    /\ args = NoArgs
    /\ stdout = {}
    /\ ret = NoCall
    /\ requested = {}

NextRecord ==
    \/ ReaderInit
    \/ \E f \in FlagChoices : Decode(f)
    \/ \E k \in 1..MaxRecords, f \in StageChoices : Redecode(k, f)
    \/ \E k \in 1..MaxRecords : TrackingMode(k)
    \/ \E k \in 1..MaxRecords : DssId(k)
    \/ \E k \in 1..MaxRecords : RadioBand(k)

SpecRecord == InitRecord /\ [][NextRecord]_vars

\* the construction of a Reader on buffers of labels of any declared length
InitFraming ==
    /\ binarydata \in FramingFiles
    /\ pc = "new"
    /\ index = <<>>
    /\ sfdu_list = <<>>
    /\ is_decoded = FALSE
    /\ flags = AllStages
    /\ full = NoSummary
    /\ quick = NoSummary
    /\ fout = <<>>
    /\ args = NoArgs
    /\ stdout = {}
    /\ ret = NoCall
    /\ requested = {}

NextFraming == ReaderInit

SpecFraming == InitFraming /\ [][NextFraming]_vars

\* trk234_purify run as a script with its band options on the files that
\* hold every secondary variant
NextScript == \E a \in BandArgChoices : PurifyScript(a)

SpecScript == InitVariants /\ [][NextScript]_vars

-----------------------------------------------------------------------------
(* Framing *)

\* the Reader has been constructed: sfdu_index returned
Constructed == index # <<>>

NFrames == Len(index) - 1

\* every frame is complete: the last boundary is the end of the file
WholeFile == Constructed /\ index[Len(index)] = Len(binarydata)

\* Reader.STARTPACKET, and the offsets of the file where a record starts
STARTPACKET == <<78, 74, 80, 76>>
Markers(data) == { p \in 0..(Len(data) - 4) : PySlice(data, p, p + 4) = STARTPACKET }

\* C1: when construction succeeds the boundaries start at 0 and the last
\* boundary is the length of the buffer; a chain that overruns the buffer is
\* never accepted (the statement of the claim, which the code violates)
C1_LastBoundaryIsLength ==
    Constructed => index[1] = 0 /\ index[Len(index)] = Len(binarydata)

\* C2: the boundaries start at 0, each next boundary is the current one plus
\* the 8-byte big-endian length at bytes 12..19 of the current record plus 20,
\* the loop stops at the first boundary that reaches or exceeds the length of
\* the buffer, and a buffer that k records fill exactly gives k frames that
\* start where the records start
C2_IndexChain ==
    Constructed =>
        /\ index[1] = 0
        /\ \A i \in 1..NFrames :
              /\ index[i] < Len(binarydata)
              /\ index[i + 1] =
                    index[i] + 20
                    + BigEndian(SubSeq(binarydata, index[i] + 13, index[i] + 20))
        /\ index[Len(index)] >= Len(binarydata)
        /\ WholeFile =>
              /\ { index[i] : i \in 1..NFrames } = Markers(binarydata)
              /\ NFrames = Cardinality(Markers(binarydata))

\* three records of two different lengths fill the buffer exactly
C2_Witness ==
    /\ pc = "ready" /\ WholeFile /\ NFrames = 3
    /\ index[2] - index[1] # index[3] - index[2]

-----------------------------------------------------------------------------
(* The two aggregators *)

BothSummaries == full.state = "ok" /\ quick.state = "ok"

FirstIsEarliest ==
    /\ sfdu_list[1].is_decoded
    /\ \A k \in Decoded(sfdu_list) : Before(timestamp(sfdu_list[1]), timestamp(sfdu_list[k]))
LastIsLatest ==
    /\ sfdu_list[Len(sfdu_list)].is_decoded
    /\ \A k \in Decoded(sfdu_list) :
          Before(timestamp(sfdu_list[k]), timestamp(sfdu_list[Len(sfdu_list)]))

-----------------------------------------------------------------------------
(* Unknown variant codes *)

FrameOf(k) == Frame(binarydata, index, k)

UnknownCode(s) == s.label.data_description_id \notin data_descriptions
UnknownFormat(s) == s.pri_chdo.format_code \notin format_codes

\* the label, aggregation and primary header of record k after a decode with
\* flags f are what their stages read of frame k
HeadersReadable(s, k, f) ==
    /\ s.number = k - 1
    /\ s.binarydata = FrameOf(k)
    /\ s.label = IF f.label THEN LabelDecode(FrameOf(k)) ELSE SFDULabel
    /\ s.agg_chdo = IF f.agg_chdo THEN AggDecode(FrameOf(k)) ELSE SFDUAggCHDO
    /\ s.pri_chdo = IF f.pri_chdo THEN PriDecode(FrameOf(k)) ELSE PrimaryCHDO

\* C4: a Reader.decode that requests the secondary stage does not raise on a
\* record with an unknown data-description code: the record is not decoded, has
\* no secondary header and no tracking payload, keeps its label, aggregation
\* and primary header, and every record of the stream is in the sequence
C4_UnknownSecondarySkipped ==
    [][\A f \in FlagChoices : (Decode(f) /\ f.sec_chdo) =>
          /\ WholeFile => pc' = "ready"
          /\ pc' = "ready" =>
                /\ Len(sfdu_list') = NFrames
                /\ \A k \in 1..NFrames :
                      UnknownCode(sfdu_list'[k]) =>
                          /\ ~sfdu_list'[k].is_decoded
                          /\ sfdu_list'[k].sec_chdo = NoCHDO
                          /\ sfdu_list'[k].trk_chdo = NoCHDO
                          /\ HeadersReadable(sfdu_list'[k], k, f)]_vars

\* a record with an unknown code was skipped and a later record was decoded
C4_Witness ==
    /\ pc = "ready" /\ is_decoded /\ flags = AllStages
    /\ \E k \in 1..NFrames, j \in 1..NFrames :
          /\ k < j
          /\ sfdu_list[k].label.data_description_id = Unknown
          /\ ~sfdu_list[k].is_decoded
          /\ sfdu_list[k].pri_chdo.format_code = 1
          /\ sfdu_list[j].is_decoded

\* the frames whose bytes 8..11 are none of the five known codes
UnknownFrames == { k \in 1..NFrames : PySlice(FrameOf(k), DdidLo, DdidHi) \notin data_descriptions }

\* C5 (as claimed): a stream of N records of which exactly one has an unknown
\* data-description code decodes to N records of which N-1 are decoded
C5_AllButOneDecoded ==
    (pc = "ready" /\ is_decoded /\ flags = AllStages /\ WholeFile
        /\ Cardinality(UnknownFrames) = 1) =>
        /\ Len(sfdu_list) = NFrames
        /\ Cardinality(Decoded(sfdu_list)) = NFrames - 1

\* C5 (amended): the same, for a decode with the label and secondary stages,
\* provided that when the tracking stage is requested the primary stage is too
\* and every other record has a format code in 0..17; and the decode does not
\* raise
C5_AllButOneDecodedKnownFormats ==
    [][\A f \in FlagChoices :
          ( /\ Decode(f) /\ f.label /\ f.sec_chdo
            /\ WholeFile /\ Cardinality(UnknownFrames) = 1
            /\ f.trk_chdo =>
                  /\ f.pri_chdo
                  /\ \A k \in (1..NFrames) \ UnknownFrames :
                        FrameOf(k)[FormatCodeOff + 1] \in format_codes ) =>
          /\ pc' = "ready"
          /\ Len(sfdu_list') = NFrames
          /\ Cardinality(Decoded(sfdu_list')) = NFrames - 1]_vars

\* three records, the middle one of unknown code, fully decoded
C5_Witness ==
    /\ pc = "ready" /\ is_decoded /\ flags = AllStages /\ WholeFile
    /\ NFrames = 3 /\ UnknownFrames = {2}
    /\ Decoded(sfdu_list) = {1, 3}

\* C6: a Reader.decode that requests the tracking stage does not raise on a
\* record whose format code is outside 0..17: the record is not decoded, has no
\* tracking payload, keeps its label, headers and secondary header, and every
\* record of the stream is in the sequence
C6_UnknownTrackingSkipped ==
    [][\A f \in FlagChoices : (Decode(f) /\ f.trk_chdo) =>
          /\ WholeFile => pc' = "ready"
          /\ pc' = "ready" =>
                /\ Len(sfdu_list') = NFrames
                /\ \A k \in 1..NFrames :
                      ( /\ UnknownFormat(sfdu_list'[k])
                        /\ ~(f.sec_chdo /\ UnknownCode(sfdu_list'[k])) ) =>
                          /\ ~sfdu_list'[k].is_decoded
                          /\ sfdu_list'[k].trk_chdo = NoCHDO
                          /\ sfdu_list'[k].sec_chdo =
                                IF f.sec_chdo
                                THEN SecDecode(sfdu_list'[k].label.data_description_id,
                                               FrameOf(k))
                                ELSE NoCHDO
                          /\ HeadersReadable(sfdu_list'[k], k, f)]_vars

\* a record of format code 18 was skipped with its secondary header decoded,
\* and a later record was decoded
C6_Witness ==
    /\ pc = "ready" /\ is_decoded /\ flags = AllStages
    /\ \E k \in 1..NFrames, j \in 1..NFrames :
          /\ k < j
          /\ sfdu_list[k].pri_chdo.format_code = 18
          /\ ~sfdu_list[k].is_decoded
          /\ sfdu_list[k].sec_chdo.tag = "Downlink"
          /\ sfdu_list[k].sec_chdo.dl_dss_id = 14
          /\ sfdu_list[j].is_decoded

-----------------------------------------------------------------------------
(* The transforms *)

\* a supplied option on attribute name holds of record s: the variant has the
\* attribute and its value (its band label) is the option's
Holds(opt, s, name, label) ==
    Supplied(opt) =>
        /\ hasattr(s.sec_chdo, name)
        /\ IF label
           THEN s.sec_chdo[name] \in 0..5 /\ Band(s.sec_chdo[name]) = opt[1]
           ELSE s.sec_chdo[name] = opt[1]

\* a supplied option on attribute name is not contradicted by record s: the
\* variant lacks the attribute, or the option holds of it
HoldsOrAbsent(opt, s, name, label) ==
    hasattr(s.sec_chdo, name) => Holds(opt, s, name, label)

KnownCodes(s) == ~UnknownCode(s) /\ ~UnknownFormat(s)
FormatMatches(s, a) ==
    Supplied(a.format_code) => s.pri_chdo.format_code = a.format_code[1]

StrictMatch(s, a) ==
    /\ KnownCodes(s) /\ FormatMatches(s, a)
    /\ Holds(a.ul_dss_id, s, "ul_dss_id", FALSE)
    /\ Holds(a.dl_dss_id, s, "dl_dss_id", FALSE)
    /\ Holds(a.ul_band, s, "ul_band", TRUE)
    /\ Holds(a.dl_band, s, "dl_band", TRUE)

LenientMatch(s, a) ==
    /\ KnownCodes(s) /\ FormatMatches(s, a)
    /\ HoldsOrAbsent(a.ul_dss_id, s, "ul_dss_id", FALSE)
    /\ HoldsOrAbsent(a.dl_dss_id, s, "dl_dss_id", FALSE)
    /\ HoldsOrAbsent(a.ul_band, s, "ul_band", TRUE)
    /\ HoldsOrAbsent(a.dl_band, s, "dl_band", TRUE)

C8_RoundTrip ==
    (pc = "purified" /\ args = NoOptions) => Flatten(fout) = binarydata

\* the frames whose data-description code and format code are both known
KnownFrame(b) ==
    /\ PySlice(b, DdidLo, DdidHi) \in data_descriptions
    /\ b[FormatCodeOff + 1] \in format_codes
Frames == [k \in 1..NFrames |-> FrameOf(k)]

\* C8 (amended): with no predicate supplied the output of purify is the
\* concatenation, in input order, of the frames whose two codes are known; it
\* is the input buffer when every record has known codes
C8_RoundTripOfKnownRecords ==
    (pc = "purified" /\ args = NoOptions) =>
        /\ Flatten(fout) = Flatten(SelectSeq(Frames, KnownFrame))
        /\ (\A k \in 1..NFrames : KnownFrame(FrameOf(k))) =>
              Flatten(fout) = binarydata

\* no predicate: of three records the middle one, of unknown code, is
\* dropped and the other two are reproduced in order
C8_Witness ==
    /\ pc = "purified" /\ args = NoOptions /\ NFrames = 3
    /\ fout = <<FrameOf(1), FrameOf(3)>>
    /\ Flatten(fout) # binarydata

\* the format code of a record written, and the frame it was read from
CodeOf(b) == b[FormatCodeOff + 1]
InputPos(b) == CHOOSE k \in 1..NFrames : FrameOf(k) = b

\* C9: regroup writes the records grouped by ascending format code, the
\* records of one code in their input order
C9_StablePartition ==
    pc = "regrouped" =>
        /\ \A p \in DOMAIN fout : \E k \in 1..NFrames : FrameOf(k) = fout[p]
        /\ \A p, q \in DOMAIN fout :
              p < q =>
                 /\ CodeOf(fout[p]) <= CodeOf(fout[q])
                 /\ CodeOf(fout[p]) = CodeOf(fout[q]) =>
                       InputPos(fout[p]) < InputPos(fout[q])

\* codes 1, 9, 1 regrouped to 1, 1, 9 with the two records of code 1 in order
C9_Witness ==
    /\ pc = "regrouped" /\ NFrames = 3
    /\ [k \in 1..3 |-> CodeOf(FrameOf(k))] = <<1, 9, 1>>
    /\ fout = <<FrameOf(1), FrameOf(3), FrameOf(2)>>

RECURSIVE TotalLen(_)
TotalLen(ss) == IF ss = <<>> THEN 0 ELSE Len(Head(ss)) + TotalLen(Tail(ss))

CountOf(ss, c) == Cardinality({ k \in DOMAIN ss : CodeOf(ss[k]) = c })
KnownFormatFrame(b) == CodeOf(b) \in format_codes

\* C10: the output of regroup has the per-format-code counts (0..17) of the
\* input; exactly the records of a format code outside 0..17 are dropped, the
\* output is as long as the records written, and as long as the input when
\* none is dropped
C10_CountsAndLength ==
    pc = "regrouped" =>
        /\ \A c \in format_codes : CountOf(fout, c) = CountOf(Frames, c)
        /\ Len(fout) = Len(SelectSeq(Frames, KnownFormatFrame))
        /\ Len(Flatten(fout)) = TotalLen(SelectSeq(Frames, KnownFormatFrame))
        /\ (\A k \in 1..NFrames : KnownFormatFrame(FrameOf(k))) =>
              Len(Flatten(fout)) = Len(binarydata)

\* three records regrouped in another order, none dropped
C10_Witness ==
    /\ pc = "regrouped" /\ NFrames = 3 /\ Len(fout) = 3
    /\ fout # Frames
    /\ CountOf(fout, 1) = 2 /\ CountOf(fout, 9) = 1
    /\ Len(Flatten(fout)) = Len(binarydata)

-----------------------------------------------------------------------------
(* Validation of the regrouped file *)

\* the file regroup has written, read back: its boundaries, its headers
OutputIndex == sfdu_index(Flatten(fout))
OutputRecords == ReaderDecode(Flatten(fout), OutputIndex.ind, HeaderOnly)
OutputReadable == ~OutputIndex.raised /\ ~OutputRecords.raised

\* C11: when validation is requested on a file of whole records, regroup
\* warns exactly when the file it has written, read back, differs from the
\* input in its number of records or in its counts per format code
C11_ValidationWarnsOnMismatch ==
    (pc = "regrouped" /\ args.validate /\ WholeFile /\ OutputReadable) =>
        /\ (WarnNumber \in stdout) <=> (Len(OutputRecords.sfdus) # Len(sfdu_list))
        /\ (WarnTypes \in stdout) <=>
              (types(OutputRecords.sfdus) # types(sfdu_list))

-----------------------------------------------------------------------------
(* Byte ranges *)

\* how many entries of the sequence q equal b
Occurrences(q, b) == Cardinality({ p \in DOMAIN q : q[p] = b })

\* every write of a transform is the range of an input record, and no input
\* record is written more often than it occurs in the input
WritesAreFrames ==
    pc \in {"purified", "regrouped"} =>
        \A p \in DOMAIN fout :
            /\ \E k \in 1..NFrames : fout[p] = FrameOf(k)
            /\ Occurrences(fout, fout[p]) <= Occurrences(Frames, fout[p])

\* every record of the decoded stream holds the range of its frame
RecordsHoldFrames ==
    is_decoded =>
        /\ Len(sfdu_list) = NFrames
        /\ \A k \in 1..NFrames : sfdu_list[k].binarydata = FrameOf(k)

\* C12: the output of purify and of regroup is made of ranges
\* [index[i], index[i+1]) of the input buffer, each input record written at
\* most once; no step changes the input buffer, and after every step each
\* record holds the range of its frame
C12_ByteExactRanges ==
    [][/\ binarydata' = binarydata
       /\ WritesAreFrames'
       /\ RecordsHoldFrames']_vars

\* regroup of three records drops one and writes the other two out of their
\* input order
C12_Witness ==
    /\ pc = "regrouped" /\ NFrames = 3
    /\ fout = <<FrameOf(3), FrameOf(1)>>
    /\ Flatten(fout) = FrameOf(3) \o FrameOf(1)

-----------------------------------------------------------------------------
(* Decoding twice, and decoding selectively *)

\* SFDU.decode of range b with flags f on the record s, called once more on
\* the record it leaves, ends as the first call did and leaves the same record
DecodeTwiceIsOnce(s, b, f) ==
    LET once == SFDUDecode(s, b, f)
    IN  ~once.raised => SFDUDecode(once.sfdu, b, f) = once

\* C13: SFDU.decode is idempotent: a second call on the same byte range with
\* the same flags leaves the field values and the decoded flag of the first,
\* for every frame of the file and every choice of flags; the records of a
\* decoded stream are left as they are by such a call
C13_DecodeIdempotent ==
    /\ (pc = "ready" /\ ~is_decoded) =>
          \A k \in 1..NFrames : \A f \in FlagChoices :
              DecodeTwiceIsOnce(NewSFDU, FrameOf(k), f)
    /\ (is_decoded /\ pc # "raised") =>
          \A k \in 1..NFrames :
              SFDUDecode(sfdu_list[k], FrameOf(k), flags) = Returns(sfdu_list[k])

\* a stream decoded with every stage: one record fully decoded, one stopped
\* at its secondary header, one stopped at its tracking payload
C13_Witness ==
    /\ pc = "ready" /\ is_decoded /\ flags = AllStages /\ NFrames = 3
    /\ \E i, j, k \in 1..NFrames :
          /\ sfdu_list[i].is_decoded /\ sfdu_list[i].trk_chdo # NoCHDO
          /\ UnknownCode(sfdu_list[j]) /\ ~sfdu_list[j].is_decoded
          /\ UnknownFormat(sfdu_list[k]) /\ sfdu_list[k].sec_chdo # NoCHDO
          /\ \A n \in {i, j, k} :
                SFDUDecode(sfdu_list[n], FrameOf(n), flags).sfdu = sfdu_list[n]

-----------------------------------------------------------------------------
(* The boundaries and the decode *)

\* C14: the boundaries are fixed at construction: no step of a constructed
\* Reader (Reader.decode with any flags, however often, Info, and quicklook
\* with its get_data_types) changes Reader.index, and the boundaries
\* get_data_types recomputes are Reader.index
C14_IndexFixed ==
    [][/\ pc = "ready" => index' = index
       /\ Constructed' => sfdu_index(binarydata').ind = index']_vars

\* a stream decoded without its label stage, then summarised by quicklook,
\* with the boundaries of its three records as they were computed
C14_Witness ==
    /\ pc = "ready" /\ is_decoded /\ ~flags.label
    /\ quick # NoSummary /\ quick # Raised
    /\ NFrames = 3 /\ index = sfdu_index(binarydata).ind

\* the record a decode with every stage makes of frame k
FullDecode(k) == SFDUDecode(NewSFDU, FrameOf(k), AllStages)

\* record s, decoded with flags f, has in each header f asks for the values
\* the record t has; the secondary variant is chosen by the label, so its
\* header is compared when both stages were asked for
SameProducedFields(s, t, f) ==
    /\ f.label => s.label = t.label
    /\ f.agg_chdo => s.agg_chdo = t.agg_chdo
    /\ f.pri_chdo => s.pri_chdo = t.pri_chdo
    /\ (f.label /\ f.sec_chdo) => s.sec_chdo = t.sec_chdo

\* C15: after a Reader.decode that skips stages, the label, aggregation and
\* primary header of every record (data-description code and format code
\* included) are those of a decode of the same bytes with every stage, and so
\* is the secondary header when only later stages were skipped
C15_SelectiveEqualsFull ==
    (is_decoded /\ pc # "raised") =>
        \A k \in 1..NFrames :
            ~FullDecode(k).raised =>
                SameProducedFields(sfdu_list[k], FullDecode(k).sfdu, flags)

\* a stream decoded without the tracking stage: a record of unknown format
\* code counts as decoded, which it does not with every stage, and has the
\* secondary header of the full decode; another record lacks only the payload
C15_Witness ==
    /\ pc = "ready" /\ is_decoded /\ flags = NoTracking /\ NFrames = 3
    /\ \E j, k \in 1..NFrames :
          /\ UnknownFormat(sfdu_list[j]) /\ sfdu_list[j].is_decoded
          /\ ~FullDecode(j).sfdu.is_decoded
          /\ sfdu_list[j].sec_chdo = FullDecode(j).sfdu.sec_chdo
          /\ sfdu_list[j].sec_chdo # NoCHDO
          /\ sfdu_list[k].trk_chdo = NoCHDO
          /\ FullDecode(k).sfdu.trk_chdo # NoCHDO
          /\ sfdu_list[k].pri_chdo = FullDecode(k).sfdu.pri_chdo

-----------------------------------------------------------------------------
(* The accessors of a record without secondary header *)

\* the records of the stream that have no secondary header: the stage was
\* skipped, or it stopped at an unknown data-description code
NoSecondary == { k \in DOMAIN sfdu_list : sfdu_list[k].sec_chdo = NoCHDO }

\* the exception e names the stage that is missing
NamesSecondaryStage(e) ==
    \E w \in {"sec_chdo", "secondary"} : w \in {e.type, e.object, e.attribute}

\* a summary was returned only if timestamp was asked of no record without
\* secondary header
SummariesNeededNoAbsentHeader ==
    /\ (full # NoSummary /\ full # Raised) => Decoded(sfdu_list) \cap NoSecondary = {}
    /\ (quick # NoSummary /\ quick # Raised) =>
          /\ FullDecode(1).sfdu.sec_chdo # NoCHDO
          /\ FullDecode(NFrames).sfdu.sec_chdo # NoCHDO

\* C16 (as claimed): timestamp on a record without secondary header returns
\* no time: it fails, with an error that identifies the missing stage
C16_TimestampNamesMissingStage ==
    \A k \in NoSecondary :
        /\ TimestampRaises(sfdu_list[k])
        /\ NamesSecondaryStage(TimestampError(sfdu_list[k]))

\* C16 (amended): timestamp on a record without secondary header returns no
\* time: it fails with the AttributeError of reading the attribute year of
\* None, and a summary is returned only when timestamp was asked of no such
\* record
C16_TimestampFailsWithoutSecondary ==
    /\ \A k \in NoSecondary :
          /\ TimestampRaises(sfdu_list[k])
          /\ TimestampError(sfdu_list[k]) =
                [type |-> "AttributeError", object |-> "NoneType", attribute |-> "year"]
    /\ SummariesNeededNoAbsentHeader

\* Info on a stream decoded without the secondary stage has failed: get_info
\* asked every record, all counted as decoded, for its timestamp
C16_Witness ==
    /\ pc = "raised" /\ full = Raised /\ is_decoded /\ flags = HeaderOnly
    /\ NFrames = 2 /\ NoSecondary = {1, 2}
    /\ \A k \in NoSecondary : sfdu_list[k].is_decoded /\ TimestampRaises(sfdu_list[k])

-----------------------------------------------------------------------------
(* Full aggregation *)

\* Info has run on a stream decoded with its label, primary and secondary
\* stages
Aggregated ==
    /\ is_decoded /\ full # NoSummary
    /\ flags.label /\ flags.pri_chdo /\ flags.sec_chdo

\* some record stopped at an unknown data-description code, some was decoded
PartlyDecoded ==
    /\ \E k \in DOMAIN sfdu_list : UnknownCode(sfdu_list[k]) /\ ~sfdu_list[k].is_decoded
    /\ Decoded(sfdu_list) # {}

\* C17: get_info over a decoded stream in which a record stopped at an
\* unknown data-description code, whatever its format code, completes and
\* reports the number of records, the counts per format code, the
\* data-description codes, and the times and spacecraft of the records that
\* have a secondary header
C17_PartialStreamSummarised ==
    (Aggregated /\ PartlyDecoded) =>
        /\ full # Raised
        /\ full.numRecords = NFrames
        /\ full.numberDataTypes = types(sfdu_list)
        /\ full.dataDescriptionIds =
              { sfdu_list[k].label.data_description_id : k \in DOMAIN sfdu_list }
        /\ full.startTime = Earliest({ timestamp(sfdu_list[k]) : k \in Decoded(sfdu_list) })
        /\ full.endTime = Latest({ timestamp(sfdu_list[k]) : k \in Decoded(sfdu_list) })
        /\ full.spacecraftId = { sfdu_list[k].sec_chdo.scft_id : k \in Decoded(sfdu_list) }

\* the secondary headers of the records whose data-description code is in D
HeadersOf(D) ==
    { sfdu_list[k].sec_chdo :
        k \in { j \in DOMAIN sfdu_list : sfdu_list[j].label.data_description_id \in D } }

\* C18: in the summary of get_info the uplink stations and bands are those of
\* the Uplink and Interferometric records, the downlink stations those of the
\* Downlink, Derived, Interferometric (both of its downlink stations) and
\* Filtered records, the downlink bands those of the Downlink,
\* Interferometric and Filtered records, the tracking modes those of the
\* records that are not Uplink; a record of any other code adds nothing
C18_ContributionsByVariant ==
    (Aggregated /\ full # Raised) =>
        /\ full.uplinkDssId = { h.ul_dss_id : h \in HeadersOf({C123, C126}) }
        /\ full.uplinkBand = { Band(h.ul_band) : h \in HeadersOf({C123, C126}) }
        /\ full.dnlinkDssId =
              { h.dl_dss_id : h \in HeadersOf({C124, C125, C126, C127}) }
              \cup { h.dl_dss_id_2 : h \in HeadersOf({C126}) }
        /\ full.dnlinkBand = { Band(h.dl_band) : h \in HeadersOf({C124, C126, C127}) }
        /\ full.trackingMode =
              { tracking_mode(sfdu_list[k]) :
                  k \in { j \in DOMAIN sfdu_list :
                            sfdu_list[j].label.data_description_id
                                \in {C124, C125, C126, C127} } }

\* the summary of a Derived and an Interferometric record: three downlink
\* stations, one uplink station, the bands of the Interferometric record only
C18_Witness ==
    /\ Aggregated /\ full # Raised /\ NFrames = 2
    /\ sfdu_list[1].sec_chdo.tag = "Derived"
    /\ sfdu_list[2].sec_chdo.tag = "Inferometric"
    /\ full.dnlinkDssId = {24, 35, 36}
    /\ full.uplinkDssId = {34}
    /\ full.dnlinkBand = {"Ku"} /\ full.uplinkBand = {"Ka"}
    /\ full.trackingMode = {<<"1W">>, <<"3W", 34>>}

-----------------------------------------------------------------------------
(* The fast path *)

\* quicklook has returned a summary
QuickDone == quick # NoSummary /\ quick # Raised

\* C19 (as claimed): after quicklook the set of tracking modes and the set of
\* Doppler count times are empty
C19_QuicklookSetsEmpty ==
    QuickDone => quick.trackingMode = {} /\ quick.dopplerCountTime = {}

\* the frames of the Downlink records
DownlinkFrames ==
    { k \in 1..NFrames : PySlice(FrameOf(k), DdidLo, DdidHi) = C124 }

\* C19 (amended): after quicklook the set of Doppler count times is empty;
\* the set of tracking modes holds 1W, 2W or 3W for every Downlink record
\* whose mode byte (offset 69) is 1, 2 or 3, and nothing else
C19_QuicklookModesOfDownlink ==
    QuickDone =>
        /\ quick.dopplerCountTime = {}
        /\ \A m \in 1..3 :
              (<<<<"1W">>, <<"2W">>, <<"3W">>>>[m] \in quick.trackingMode)
                  <=> (\E k \in DownlinkFrames : FrameOf(k)[ModeOff + 1] = m)
        /\ quick.trackingMode \subseteq {<<"1W">>, <<"2W">>, <<"3W">>}

\* quicklook of a Downlink record of mode 2 and a Filtered record of format
\* code 16: the mode of the Downlink record is reported, no count time is
C19_Witness ==
    /\ QuickDone /\ NFrames = 2
    /\ PySlice(FrameOf(1), DdidLo, DdidHi) = C124
    /\ PySlice(FrameOf(2), DdidLo, DdidHi) = C127
    /\ FrameOf(2)[FormatCodeOff + 1] = 16
    /\ quick.trackingMode = {<<"2W">>}
    /\ quick.dopplerCountTime = {}

\* the range of input record k, and the time its secondary header holds
InputRange(k) == PySlice(binarydata, index[k], index[k + 1])
TimeIn(b) ==
    LET year == BigEndian(PySlice(b, YearOff, YearOff + 2))
        doy == BigEndian(PySlice(b, DoyOff, DoyOff + 2))
        sec == BigEndian(PySlice(b, SecOff, SecOff + 8))
    IN  <<DaysBeforeYear(year) + doy - 1 + (sec \div 86400), sec % 86400>>

\* C20: the start time of quicklook is the time of the first record of the
\* stream and its end time the time of the last, whatever the times of the
\* records between them; its counts per format code are those of byte 31 of
\* the ranges the boundaries give
C20_QuicklookFirstAndLast ==
    QuickDone =>
        /\ quick.startTime = TimeIn(InputRange(1))
        /\ quick.endTime = TimeIn(InputRange(NFrames))
        /\ quick.numRecords = NFrames
        /\ quick.numberDataTypes =
              [c \in 1..18 |->
                  Cardinality({ k \in 1..NFrames :
                                  InputRange(k)[FormatCodeOff + 1] = c - 1 })]

\* quicklook of three records, the one in the middle earlier than the first
\* and of another format code: its time is not reported, its code is counted
C20_Witness ==
    /\ QuickDone /\ NFrames = 3
    /\ ~Before(TimeIn(InputRange(1)), TimeIn(InputRange(2)))
    /\ Before(TimeIn(InputRange(1)), TimeIn(InputRange(3)))
    /\ quick.startTime = TimeIn(InputRange(1))
    /\ quick.startTime # TimeIn(InputRange(2))
    /\ quick.endTime = TimeIn(InputRange(3))
    /\ InputRange(2)[FormatCodeOff + 1] = 9
    /\ quick.numberDataTypes[10] = 1 /\ quick.numberDataTypes[2] = 2

-----------------------------------------------------------------------------
(* The accessors of a record *)

\* the secondary variants that carry a mode code
ModeVariants == {"Downlink", "Derived", "Inferometric", "Filtered"}

\* the label of mode code m of a record whose uplink station is stn
ModeLabel(m, stn) ==
    CASE m = 0 -> <<"None">>
      [] m = 1 -> <<"1W">>
      [] m = 2 -> <<"2W">>
      [] m = 3 -> <<"3W", stn>>
      [] m = 4 -> <<"Invalid">>

\* C21: tracking_mode returns, for a record of a secondary variant other than
\* Uplink whose mode code is in 0..4, the label None, 1W, 2W, 3W/<uplink
\* station> or Invalid of that code; for an Uplink (C123) record it returns
\* N/A whatever the byte at the offset of the mode code
C21_TrackingModeLabels ==
    [][\A k \in 1..MaxRecords : TrackingMode(k) =>
          LET s == sfdu_list[k]
          IN  /\ (s.sec_chdo.tag \in ModeVariants /\ s.sec_chdo.prdx_mode \in 0..4) =>
                    /\ ~ret'.raised
                    /\ ret'.value = ModeLabel(s.sec_chdo.prdx_mode, s.sec_chdo.ul_prdx_stn)
              /\ (s.sec_chdo.tag = "Uplink" \/ s.label.data_description_id = C123) =>
                    /\ ~ret'.raised
                    /\ ret'.value = <<"N/A">>]_vars

\* tracking_mode has returned 3W with the uplink station of a Derived record
C21_Witness ==
    /\ ret = Call("tracking_mode", 1, FALSE, <<"3W", 34>>)
    /\ sfdu_list[1].sec_chdo.tag = "Derived"
    /\ sfdu_list[1].sec_chdo.prdx_mode = 3

\* the secondary variants that carry each field
VariantsWith(name) ==
    CASE name = "ul_dss_id" -> {"Uplink", "Inferometric"}
      [] name = "ul_band" -> {"Uplink", "Inferometric"}
      [] name = "dl_dss_id" -> {"Downlink", "Derived", "Inferometric", "Filtered"}
      [] name = "dl_band" -> {"Downlink", "Inferometric", "Filtered"}

\* field name of record s, or the value absent when its variant has no such
\* field or the record has no secondary header
FieldOr(s, name, absent) ==
    IF s.sec_chdo.tag \in VariantsWith(name) THEN s.sec_chdo[name] ELSE absent

BandLabel(c) ==
    CASE c = 0 -> "Unknown" [] c = 1 -> "S" [] c = 2 -> "X"
      [] c = 3 -> "Ka" [] c = 4 -> "Ku" [] c = 5 -> "L"

\* C22 (as claimed): dss_id and radio_band always return an (uplink, downlink)
\* pair: an absent station as 0, an absent band as Unknown, a present field
\* with its decoded value
C22_AccessorsAlwaysReturn ==
    [][\A k \in 1..MaxRecords :
          /\ DssId(k) =>
                /\ ~ret'.raised
                /\ ret'.value = <<FieldOr(sfdu_list[k], "ul_dss_id", 0),
                                  FieldOr(sfdu_list[k], "dl_dss_id", 0)>>
          /\ RadioBand(k) =>
                /\ ~ret'.raised
                /\ Len(ret'.value) = 2
                /\ FieldOr(sfdu_list[k], "ul_band", 0) = 0 => ret'.value[1] = "Unknown"
                /\ FieldOr(sfdu_list[k], "dl_band", 0) = 0 => ret'.value[2] = "Unknown"]_vars

\* C22 (amended): dss_id always returns the pair of the stations, an absent
\* one as 0; radio_band returns the pair of the labels util.bands gives the
\* band codes, an absent band as Unknown, and raises exactly when a band that
\* is present has a code outside 0..5; neither fails for a missing field
C22_SentinelsForAbsentFields ==
    [][\A k \in 1..MaxRecords :
          LET s == sfdu_list[k]
              ul == FieldOr(s, "ul_band", 0)
              dl == FieldOr(s, "dl_band", 0)
          IN  /\ DssId(k) =>
                    /\ ~ret'.raised
                    /\ ret'.value = <<FieldOr(s, "ul_dss_id", 0), FieldOr(s, "dl_dss_id", 0)>>
              /\ RadioBand(k) =>
                    /\ ret'.raised <=> (ul \notin 0..5 \/ dl \notin 0..5)
                    /\ ~ret'.raised => ret'.value = <<BandLabel(ul), BandLabel(dl)>>]_vars

\* radio_band has returned Unknown for the uplink band a Downlink record lacks
\* and dss_id 0 for the stations of a record without secondary header
C22_Witness ==
    \/ /\ ret = Call("radio_band", 1, FALSE, <<"Unknown", "X">>)
       /\ sfdu_list[1].sec_chdo.tag = "Downlink"
    \/ /\ ret = Call("dss_id", 1, FALSE, <<0, 0>>)
       /\ sfdu_list[1].sec_chdo = NoCHDO

-----------------------------------------------------------------------------
(* The order of the records *)

\* the sequence list is the stream in index order: one record per frame, the
\* record at position i numbered i - 1 and holding the bytes of frame i
IndexOrdered(list) ==
    /\ Len(list) = Len(index) - 1
    /\ \A i \in DOMAIN list :
          /\ list[i].number = i - 1
          /\ list[i].binarydata = PySlice(binarydata, index[i], index[i + 1])

\* C23: a Reader.decode that returns, whatever its stage flags, leaves a
\* record sequence that is index-ordered and complete, and a later
\* Reader.decode replaces the sequence by one of the same length and order
C23_IndexOrderedSequence ==
    [][\A f \in FlagChoices : (Decode(f) /\ pc' = "ready") =>
          /\ IndexOrdered(sfdu_list')
          /\ is_decoded =>
                /\ Len(sfdu_list') = Len(sfdu_list)
                /\ \A i \in DOMAIN sfdu_list :
                      /\ sfdu_list'[i].number = sfdu_list[i].number
                      /\ sfdu_list'[i].binarydata = sfdu_list[i].binarydata]_vars

\* a decode of the headers has left three records of different lengths, in
\* the order of the index
C23_Witness ==
    /\ pc = "ready" /\ is_decoded /\ flags = HeaderOnly
    /\ Len(sfdu_list) = 3 /\ sfdu_list[3].number = 2
    /\ Len(sfdu_list[1].binarydata) # Len(sfdu_list[2].binarydata)
    /\ full = NoSummary /\ quick = NoSummary

-----------------------------------------------------------------------------
(* The band options of trk234_purify *)

\* an option that was supplied with a value that is no band label
InvalidBand(opt) == Supplied(opt) /\ opt[1] \notin {"Unknown", "S", "X", "Ka", "Ku", "L"}

\* C24: trk234_purify validates its two band options independently: a run is
\* rejected with the invalid-band error if and only if one of the two options
\* was supplied with a value that is not a known band label; a run with only a
\* valid downlink band is accepted and a run with only an invalid uplink band
\* is rejected (the statement of the claim, which the code violates)
C24_BandOptionsValidatedIndependently ==
    [][\A a \in BandArgChoices : PurifyScript(a) =>
          (pc' = "rejected" <=> (InvalidBand(a.dl_band) \/ InvalidBand(a.ul_band)))]_vars

-----------------------------------------------------------------------------
(* Staged decode *)

\* what SFDU.decode with flags f makes of the new record Reader.decode
\* creates for frame k
FreshDecode(k, f) == SFDUDecode([NewSFDU EXCEPT !.number = k - 1], FrameOf(k), f)

\* C25: a record decoded header-only (label, aggregation, primary) and then
\* decoded again from the same bytes with only the secondary and tracking
\* stages is in the state a single full decode of those bytes leaves: the
\* five sub-structures and the decoded flag, also when the data-description
\* code or the format code is unknown
C25_StagedEqualsFull ==
    [][\A k \in 1..MaxRecords :
          (/\ Redecode(k, SecondaryAndTracking)
           /\ sfdu_list[k] = FreshDecode(k, HeaderOnly).sfdu
           /\ pc' = "ready") =>
              /\ ~FreshDecode(k, AllStages).raised
              /\ sfdu_list'[k] = FreshDecode(k, AllStages).sfdu]_vars

\* the Reader decoded the headers only and the record now has a secondary
\* header and a tracking payload
C25_Witness ==
    /\ pc = "ready" /\ flags = HeaderOnly /\ requested = {1}
    /\ sfdu_list[1].is_decoded
    /\ sfdu_list[1].sec_chdo # NoCHDO /\ sfdu_list[1].trk_chdo # NoCHDO

-----------------------------------------------------------------------------
(* The decoded flag *)

\* the data-description code in the bytes record s holds
CodeInBytes(s) == PySlice(s.binarydata, DdidLo, DdidHi)

\* C26 (as claimed): after any sequence of SFDU.decode calls with any stage
\* flags, a record whose data-description code is not one of the five known
\* codes never has its decoded flag true, and a record whose flag is true and
\* whose secondary stage was ever requested has a secondary header
C26_FlagNeverTrueOnUnknownCode ==
    \A k \in DOMAIN sfdu_list :
        /\ CodeInBytes(sfdu_list[k]) \notin data_descriptions => ~sfdu_list[k].is_decoded
        /\ (sfdu_list[k].is_decoded /\ k \in requested) => sfdu_list[k].sec_chdo # NoCHDO

\* what holds of record s when an SFDU.decode call with flags f returns
AfterDecodeCall(s, f) ==
    /\ f.sec_chdo =>
          /\ UnknownCode(s) => ~s.is_decoded
          /\ s.is_decoded => s.sec_chdo # NoCHDO
    /\ (~f.sec_chdo /\ ~f.trk_chdo) => s.is_decoded

\* C26 (amended): when an SFDU.decode call that requests the secondary stage
\* returns, a record whose label holds no known data-description code has its
\* decoded flag false and a record whose flag is true has a secondary header;
\* a call that requests neither the secondary nor the tracking stage sets the
\* flag true whatever the code
C26_FlagFollowsLastCall ==
    [][/\ \A f \in FlagChoices : (Decode(f) /\ pc' = "ready") =>
             \A k \in DOMAIN sfdu_list' : AfterDecodeCall(sfdu_list'[k], f)
       /\ \A k \in 1..MaxRecords, f \in StageChoices : (Redecode(k, f) /\ pc' = "ready") =>
             AfterDecodeCall(sfdu_list'[k], f)]_vars

\* the staged decode has cleared the flag the header-only decode had set on a
\* record of unknown data-description code
C26_Witness ==
    /\ pc = "ready" /\ flags = HeaderOnly /\ requested = {1}
    /\ CodeInBytes(sfdu_list[1]) = Unknown
    /\ ~sfdu_list[1].is_decoded /\ sfdu_list[1].sec_chdo = NoCHDO

-----------------------------------------------------------------------------
(* The stage Info needs *)

\* the records of list of which get_info reads a field of the secondary
\* header: the records flagged decoded (timestamp, last_modified, scft_id),
\* then, unless min() of no timestamp has ended get_info, the records of a
\* known data-description code and the records of format code 16
SecondaryReads(list) ==
    Decoded(list)
    \cup (IF Decoded(list) = {} THEN {}
          ELSE { k \in DOMAIN list :
                   \/ InfoReads(list[k].label.data_description_id) # {}
                   \/ list[k].pri_chdo.format_code = 16 })

\* C27: Info in full mode, given a Reader in any state, aggregates only after
\* the secondary stage of every record has been attempted: it triggers
\* Reader.decode without the tracking stage when the Reader is not decoded,
\* and every record of which get_info reads a secondary-header field has a
\* secondary header (the statement of the claim, which the code violates)
C27_InfoReadsDecodedSecondaryOnly ==
    [][InfoFull =>
          /\ (~is_decoded /\ pc' = "ready") => flags' = NoTracking
          /\ requested' = DOMAIN sfdu_list'
          /\ \A k \in SecondaryReads(sfdu_list') : sfdu_list'[k].sec_chdo # NoCHDO]_vars

-----------------------------------------------------------------------------
(* The counts per format code *)

RECURSIVE Sum(_)
Sum(q) == IF q = <<>> THEN 0 ELSE Head(q) + Sum(Tail(q))

\* dt lists, in ascending order, the codes with a nonzero entry in counts
AscendingNonzero(dt, counts) ==
    /\ \A i \in DOMAIN dt : \A j \in DOMAIN dt : i < j => dt[i] < dt[j]
    /\ Range(dt) = { c \in 0..17 : counts[c + 1] # 0 }

\* the summary s counts a stream of n records whose format codes are codes
CountsOf(s, n, codes) ==
    /\ Len(s.numberDataTypes) = 18
    /\ s.numRecords = n
    /\ Sum(s.numberDataTypes) <= n
    /\ Sum(s.numberDataTypes) = n <=> \A k \in DOMAIN codes : codes[k] \in 0..17
    /\ AscendingNonzero(s.dataTypes, s.numberDataTypes)

\* C28: in both aggregators the list of counts has 18 entries (codes 0..17),
\* the entries sum to at most the number of records, with equality exactly
\* when the format code of every record is in 0..17, and the available data
\* types are the codes of nonzero count in ascending order; the format code
\* is the one the primary header holds (full) or byte 31 of the frame (quick)
C28_CountsPerFormatCode ==
    /\ full.state = "ok" =>
          CountsOf(full, Len(sfdu_list),
                   [k \in DOMAIN sfdu_list |-> sfdu_list[k].pri_chdo.format_code])
    /\ quick.state = "ok" =>
          CountsOf(quick, NFrames, [k \in 1..NFrames |-> FrameOf(k)[FormatCodeOff + 1]])

\* both summaries of three records, one of them of format code 18
C28_Witness ==
    /\ BothSummaries /\ full.numRecords = 3
    /\ Sum(full.numberDataTypes) = 2 /\ Sum(quick.numberDataTypes) = 2
    /\ full.dataTypes = <<1, 9>> /\ quick.dataTypes = <<1, 9>>

-----------------------------------------------------------------------------
(* The totality of tracking_mode *)

\* v is one of the strings None, 1W, 2W, 3W/<n>, Invalid
IsModeString(v) ==
    IF v = NoneValue THEN FALSE
    ELSE \/ v \in {<<"None">>, <<"1W">>, <<"2W">>, <<"Invalid">>}
         \/ Len(v) = 2 /\ v[1] = "3W" /\ v[2] \in 0..255

\* C29: tracking_mode is total on decoded records: for a record with a
\* decoded secondary header of a variant other than Uplink it returns, for
\* every value 0..255 of the mode code, one of the strings None, 1W, 2W,
\* 3W/<n> or Invalid, never an undefined or empty result (the statement of
\* the claim, which the code violates)
C29_TrackingModeTotal ==
    [][\A k \in 1..MaxRecords :
          (TrackingMode(k) /\ sfdu_list[k].sec_chdo.tag \in ModeVariants) =>
              /\ ~ret'.raised
              /\ IsModeString(ret'.value)]_vars

-----------------------------------------------------------------------------
(* The termination of the framing *)

\* the least number of 20-byte steps that cover n bytes
CeilDiv20(n) == (n + 19) \div 20

\* C30: sfdu_index returns on every buffer on which every read of a length
\* succeeds, also when a label declares the length 0: every boundary is at
\* least 20 bytes after the one before, so there are at most
\* ceil(len(buffer) / 20) frames, and the empty buffer gives the boundaries
\* [0] and no frame; it raises only where fewer than 8 bytes of a length
\* are left at a boundary inside the buffer
C30_FramingAdvances ==
    /\ pc = "ready" =>
          /\ Constructed
          /\ \A i \in 1..NFrames : index[i + 1] - index[i] >= 20
          /\ NFrames <= CeilDiv20(Len(binarydata))
          /\ binarydata = <<>> => index = <<0>> /\ NFrames = 0
    /\ pc = "raised" =>
          LET ind == sfdu_index(binarydata).ind
              last == ind[Len(ind)]
          IN  /\ last < Len(binarydata)
              /\ Len(PySlice(binarydata, last + LenLo, last + LenHi)) < LenHi - LenLo

\* three labels that each declare the length 0 give three frames of 20 bytes,
\* as many as the bound allows
C30_Witness ==
    /\ pc = "ready" /\ Len(binarydata) = 60
    /\ index = <<0, 20, 40, 60>>
    /\ NFrames = CeilDiv20(Len(binarydata))
    /\ BigEndian(PySlice(binarydata, LenLo, LenHi)) = 0

====
